---------------------------- MODULE Spec2Model ----------------------------
(***************************************************************************)
(* Model of the APR dataset collector (collect_apr_dataset_auto_date.py)   *)
(* and of its tracker reset script (reset_tracker_files.py).               *)
(*                                                                         *)
(* Four specifications share the variables:                                *)
(*   Spec       the collector's main() with kills and restarts;            *)
(*   SpecReset  main() run to completion, interleaved with the reset       *)
(*              script;                                                    *)
(*   SpecGet    the HTTP requests: github_get's retry loop against an      *)
(*              arbitrary response stream, and fetch_file;                 *)
(*   SpecPatch  parse_patch_hunks and build_ir4_or2 on a bounded set of    *)
(*              patches and files.                                         *)
(* In Spec and SpecReset every request of main() is one step whose         *)
(* outcome is what github_get returned; the 403 responses inside the call  *)
(* and the rotation of token_index they cause are the subject of SpecGet,  *)
(* so token_index is left unchanged by the steps of main().                *)
(***************************************************************************)
EXTENDS Integers, Sequences, FiniteSets

VARIABLES
    \* ---- disk ----
    files,          \* names of the files that exist in the working directory
    stateData,      \* content of STATE_FILE
    seenData,       \* set of lines of SEEN_FILE
    csvData,        \* rows of OUTPUT_FILE that reached the file (bag)
    backupFiles,    \* names copied into the latest backup directory
    backupSeen,     \* content of the seen-set copy in the latest backup
    \* ---- collector process (lost on kill) ----
    pc,             \* position in main(); "idle" when no process runs
    keyword_index, date_end, page, pages_used, collected,
    seen_commits,   \* in-memory seen set
    state,          \* the checkpoint load_state returned (line 181)
    res,            \* whether the last search response had items (line 214)
    items,          \* items of res not yet iterated
    lastSkip,       \* the commit the item loop has just skipped as seen
    cur,            \* sha of the commit whose files are being iterated
    nfiles, fidx,   \* number of changed files of cur, index of the next one
    wrote,          \* a row was written for cur in this pass over its files
    csvBuf,         \* rows written to csvfile and not yet flushed (bag)
    token_index,    \* module global, line 43
    \* ---- history ----
    runs,           \* collector processes started so far
    lastExit,       \* how the previous process ended
    firstSearch,    \* the first search request this process issued
    lastSearch,     \* the last search request this process issued
    inflight,       \* the last search request an ended process had issued,
                    \* kept until this process starts its first save_state
    lastSaved,      \* the last checkpoint this process wrote with save_state
    \* ---- github_get (SpecGet) ----
    gpc,            \* "loop" while a github_get call runs, else "idle"
    attempts,       \* github_get's local counter (line 79)
    gret,           \* what the last call returned: "json", "None"; "none" yet
    nOther,         \* non-200, non-403 responses to this call
    n403,           \* 403 responses to this call
    limited,        \* credentials answered 403 since the last 200 or cooldown
    hist,           \* the 403 responses in a row just received by this call
    req,            \* the HTTP request issued last: endpoint and credential
    \* ---- parse_patch_hunks and build_ir4_or2 (SpecPatch) ----
    ppc,            \* "input", then "parsed", then "built"
    patch,          \* the patch text, as its lines
    buggy_code,     \* the text of the file before the change, as its lines
    hunks,          \* what parse_patch_hunks(patch) returned
    pair            \* what build_ir4_or2(buggy_code, fixed_code, patch) returned

diskVars == <<files, stateData, seenData, csvData, backupFiles, backupSeen>>
ckptVars == <<keyword_index, date_end, page>>
loopVars == <<pages_used, collected, seen_commits>>
itemVars == <<res, items, lastSkip>>
commitVars == <<cur, nfiles, fidx, wrote>>
procVars == <<pc, state, ckptVars, loopVars, itemVars, commitVars, csvBuf>>
searchHist == <<firstSearch, lastSearch, inflight, lastSaved>>
histVars == <<runs, lastExit, searchHist>>
getVars  == <<gpc, attempts, gret, nOther, n403, limited, hist, req>>
patchVars == <<ppc, patch, buggy_code, hunks, pair>>
vars == <<diskVars, procVars, token_index, histVars, getVars, patchVars>>

---------------------------------------------------------------------------
\* Configuration (lines 23-40). MAX_COMMITS, FILES_LIMIT and
\* MAX_PAGES_PER_QUERY are scaled down; the others keep their values.

NumTokens == 3
MAX_COMMITS == 2
FILES_LIMIT == 2
DAYS_PER_RANGE == 7
MAX_PAGES_PER_QUERY == 2
KEYWORDS == <<"fix", "bug", "error", "issue", "exception", "crash", "typo">>

OUTPUT_FILE == "python_repairllama_dataset.csv"
SEEN_FILE == "seen_commits.txt"
STATE_FILE == "collector_state.json"

\* Bounds of the model.
MaxRuns == 2
MaxWindows == 1
MaxItems == 2
Max403 == 4
MaxPatchLines == 3

Commits == {"c1", "c2"}
Rows == Commits \X (1..FILES_LIMIT)
NoSha == "none"

---------------------------------------------------------------------------
\* Dates. A "%Y-%m-%d" string is the triple <<y, m, d>>; a datetime.date is
\* its proleptic Gregorian ordinal, as date.toordinal() computes it.

Years == {2023, 2024}

IsLeap(y) == (y % 4 = 0) /\ ((y % 100 # 0) \/ (y % 400 = 0))

DaysInMonth(y, m) ==
    IF m = 2 THEN (IF IsLeap(y) THEN 29 ELSE 28)
    ELSE IF m \in {4, 6, 9, 11} THEN 30 ELSE 31

DaysBeforeYear(y) ==
    (y - 1) * 365 + ((y - 1) \div 4) - ((y - 1) \div 100) + ((y - 1) \div 400)

RECURSIVE DaysBeforeMonth(_, _)
DaysBeforeMonth(y, m) ==
    IF m = 1 THEN 0 ELSE DaysBeforeMonth(y, m - 1) + DaysInMonth(y, m - 1)

DateStrings ==
    {t \in Years \X (1..12) \X (1..31) : t[3] <= DaysInMonth(t[1], t[2])}

\* datetime.datetime.strptime(s, "%Y-%m-%d").date()
Strptime(s) == DaysBeforeYear(s[1]) + DaysBeforeMonth(s[1], s[2]) + s[3]

\* date.strftime("%Y-%m-%d")
Strftime(n) == CHOOSE t \in DateStrings : Strptime(t) = n

\* The values datetime.datetime.now(datetime.UTC).date() may take.
Todays == {<<2024, 3, 3>>}

\* Lines 170-173 with one day less.
advance_date_short(end_date_str, days) ==
    Strftime(Strptime(end_date_str) - (days - 1))

advance_date(end_date_str, days) == Strftime(Strptime(end_date_str) - days)

\* The keyword and the date range of the query built at lines 203-207.
Keyword(ki) == KEYWORDS[(ki % Len(KEYWORDS)) + 1]
DateRange(de) ==
    <<Strftime(Strptime(de) - (DAYS_PER_RANGE - 1)), Strftime(Strptime(de))>>

---------------------------------------------------------------------------
\* Values.

EmptyRows == [r \in Rows |-> 0]
AddRow(b, r) == [b EXCEPT ![r] = @ + 1]
PlusRows(a, b) == [r \in Rows |-> a[r] + b[r]]

NoState == [ok |-> FALSE, keyword_index |-> 0, date_end |-> <<2024, 3, 3>>, page |-> 0]
StateOf(ki, de, p) == [ok |-> TRUE, keyword_index |-> ki, date_end |-> de, page |-> p]

NoSearch == [keyword_index |-> 0, date_end |-> <<2024, 3, 3>>, page |-> 0]
SearchOf(ki, de, p) == [keyword_index |-> ki, date_end |-> de, page |-> p]

\* An HTTP request: the endpoint, and the credential of its Authorization
\* header when it has one.
NoReq == [endpoint |-> "none", authed |-> FALSE, token |-> 0]
Authed(e, t) == [endpoint |-> e, authed |-> TRUE, token |-> t]
Bare(e) == [endpoint |-> e, authed |-> FALSE, token |-> 0]

\* A search page: up to MaxItems commits, newest first (the query of line 155
\* sorts by committer date, descending; CommitOrder is that order).
CommitOrder == <<"c1", "c2">>
RECURSIVE SubSeqs(_)
SubSeqs(q) ==
    IF q = <<>> THEN {<<>>}
    ELSE LET rest == SubSeqs(Tail(q))
         IN  rest \cup {<<Head(q)>> \o r : r \in rest}
Pages == {q \in SubSeqs(CommitOrder) : Len(q) <= MaxItems}

\* What a commit detail request may answer: failure (github_get gave None),
\* or a commit with some number of parents and of changed files.
DetailOutcomes ==
    {[ok |-> FALSE, parents |-> 0, n |-> 0]} \cup
    [ok : {TRUE}, parents : 0..1, n : 0..(FILES_LIMIT + 1)]

---------------------------------------------------------------------------
\* Initial state: an empty working directory, no process running.

InitCollector ==
    /\ files = {}
    /\ stateData = NoState
    /\ seenData = {}
    /\ csvData = EmptyRows
    /\ backupFiles = {}
    /\ backupSeen = {}
    /\ pc = "idle"
    /\ keyword_index = 0
    /\ date_end = <<2024, 3, 3>>
    /\ page = 0
    /\ pages_used = 0
    /\ collected = 0
    /\ seen_commits = {}
    /\ state = NoState
    /\ res = "none"
    /\ items = <<>>
    /\ lastSkip = NoSha
    /\ cur = NoSha
    /\ nfiles = 0
    /\ fidx = 0
    /\ csvBuf = EmptyRows
    /\ token_index = 0
    /\ runs = 0
    /\ lastExit = "none"
    /\ firstSearch = NoSearch
    /\ lastSearch = NoSearch
    /\ inflight = NoSearch
    /\ lastSaved = NoState
    /\ wrote = FALSE
    /\ gpc = "idle"
    /\ attempts = 0
    /\ gret = "none"
    /\ nOther = 0
    /\ n403 = 0
    /\ limited = {}
    /\ hist = <<>>
    /\ req = NoReq

\* No patch is being handled.
Init ==
    /\ InitCollector
    /\ ppc = "off"
    /\ patch = <<>>
    /\ buggy_code = <<>>
    /\ hunks = <<>>
    /\ pair = <<>>

\* The process's memory is gone: every in-memory variable back to a fixed value.
ProcessGone ==
    /\ pc' = "idle"
    /\ keyword_index' = 0
    /\ date_end' = <<2024, 3, 3>>
    /\ page' = 0
    /\ pages_used' = 0
    /\ collected' = 0
    /\ seen_commits' = {}
    /\ state' = NoState
    /\ res' = "none"
    /\ items' = <<>>
    /\ lastSkip' = NoSha
    /\ cur' = NoSha
    /\ nfiles' = 0
    /\ fidx' = 0
    /\ csvBuf' = EmptyRows
    /\ token_index' = 0
    /\ wrote' = FALSE
    /\ firstSearch' = NoSearch
    /\ lastSearch' = NoSearch
    /\ inflight' = (IF lastSearch # NoSearch THEN lastSearch ELSE inflight)
    /\ lastSaved' = NoState

---------------------------------------------------------------------------
\* save_state (lines 47-49): open(STATE_FILE, "w") creates or truncates the
\* file; json.dump and the close put the state in it.

SaveOpen ==
    /\ files' = files \cup {STATE_FILE}
    /\ stateData' = NoState

\* Line 49 given the state main() loaded instead of its current one.
SaveDumpLoaded ==
    /\ stateData' = state
    /\ lastSaved' = state

SaveDump ==
    /\ stateData' = StateOf(keyword_index, date_end, page)
    /\ lastSaved' = StateOf(keyword_index, date_end, page)

\* Lines 182-200 of main: the seen-set is read and the dataset file is opened
\* for append (created when absent).
OpenRun(fs) ==
    /\ seen_commits' = (IF SEEN_FILE \in fs THEN seenData ELSE {})
    /\ collected' = 0
    /\ files' = fs \cup {OUTPUT_FILE}
    /\ pc' = "outer"

\* The checkpoint file holds no JSON document: json.load raises (line 55).
StartCorrupt ==
    /\ pc = "idle" /\ runs < MaxRuns
    /\ STATE_FILE \in files /\ ~stateData.ok
    /\ runs' = runs + 1
    /\ lastExit' = "crashed"
    /\ UNCHANGED <<diskVars, procVars, token_index, getVars, patchVars, searchHist>>

\* main() up to the while loop, the checkpoint file present (lines 53-55, 181-200).
StartLoad ==
    /\ pc = "idle" /\ runs < MaxRuns
    /\ STATE_FILE \in files /\ stateData.ok
    /\ runs' = runs + 1
    /\ state' = stateData
    /\ keyword_index' = stateData.keyword_index
    /\ date_end' = stateData.date_end
    /\ page' = stateData.page
    /\ OpenRun(files)
    /\ UNCHANGED <<stateData, seenData, csvData, backupFiles, backupSeen,
                   pages_used, itemVars, commitVars, csvBuf,
                   token_index, getVars, patchVars, lastExit, searchHist>>

\* load_state with no checkpoint file (lines 56-58), up to save_state's open.
StartDefault ==
    /\ pc = "idle" /\ runs < MaxRuns
    /\ STATE_FILE \notin files
    /\ runs' = runs + 1
    /\ \E today \in Todays : date_end' = today
    /\ keyword_index' = 0
    /\ page' = 1
    /\ SaveOpen
    /\ pc' = "load_save"
    /\ UNCHANGED <<seenData, csvData, backupFiles, backupSeen,
                   state, loopVars, itemVars, commitVars, csvBuf,
                   token_index, getVars, patchVars, lastExit, searchHist>>

\* The default checkpoint is written; main goes on to the while loop.
StartSaved ==
    /\ pc = "load_save"
    /\ SaveDump
    /\ state' = StateOf(keyword_index, date_end, page)
    /\ OpenRun(files)
    /\ UNCHANGED <<seenData, csvData, backupFiles, backupSeen,
                   ckptVars, pages_used, itemVars, commitVars, csvBuf,
                   token_index, getVars, patchVars,
                   runs, lastExit, firstSearch, lastSearch, inflight>>

\* while collected < MAX_COMMITS (line 202): the query is built, pages_used = 0.
OuterEnter ==
    /\ pc = "outer"
    /\ collected < MAX_COMMITS
    /\ pages_used' = 0
    /\ pc' = "inner"
    /\ UNCHANGED <<diskVars, state, ckptVars, collected, seen_commits,
                   itemVars, commitVars, csvBuf, token_index, getVars, patchVars, histVars>>

\* The loop ends: the with block closes csvfile (its buffer reaches the file)
\* and main returns (line 270).
OuterExit ==
    /\ pc = "outer"
    /\ ~(collected < MAX_COMMITS)
    /\ csvData' = PlusRows(csvData, csvBuf)
    /\ ProcessGone
    /\ lastExit' = "done"
    /\ UNCHANGED <<files, stateData, seenData, backupFiles, backupSeen,
                   getVars, patchVars, runs>>

\* Line 212 true, and search_commits_query(query, page) (line 213): the answer
\* is a page of items, or nothing (no items, or github_get gave up), on which
\* the page loop is left (lines 214-216).
Search ==
    /\ pc = "inner"
    /\ pages_used < MAX_PAGES_PER_QUERY /\ collected < MAX_COMMITS
    /\ \E r \in Pages :
          /\ res' = (IF r = <<>> THEN "none" ELSE "items")
          /\ items' = r
          /\ pc' = (IF r = <<>> THEN "advance" ELSE "items")
    /\ lastSkip' = NoSha
    /\ lastSearch' = SearchOf(keyword_index, date_end, page)
    /\ firstSearch' = (IF firstSearch = NoSearch
                       THEN SearchOf(keyword_index, date_end, page)
                       ELSE firstSearch)
    /\ UNCHANGED <<diskVars, state, ckptVars, loopVars, commitVars, csvBuf,
                   token_index, getVars, patchVars,
                   runs, lastExit, inflight, lastSaved>>

\* Line 212 false: the page loop is left.
InnerExit ==
    /\ pc = "inner"
    /\ ~(pages_used < MAX_PAGES_PER_QUERY /\ collected < MAX_COMMITS)
    /\ pc' = "advance"
    /\ UNCHANGED <<diskVars, state, ckptVars, loopVars, itemVars, commitVars,
                   csvBuf, token_index, getVars, patchVars, histVars>>

\* Line 223 without the membership test.
IsSeenNever(sha) == FALSE

\* Line 223: sha in seen_commits.
IsSeen(sha) == sha \in seen_commits

\* The for loop over res["items"] ends, by exhaustion or by the break of
\* lines 219-220.
ItemsDone ==
    /\ pc = "items"
    /\ (items = <<>> \/ collected >= MAX_COMMITS)
    /\ items' = <<>>
    /\ lastSkip' = NoSha
    /\ pc' = "page_done"
    /\ UNCHANGED <<diskVars, state, ckptVars, loopVars, res, commitVars,
                   csvBuf, token_index, getVars, patchVars, histVars>>

\* Lines 221-224: the item's commit is in the seen set; continue.
SkipSeen ==
    /\ pc = "items"
    /\ items # <<>> /\ collected < MAX_COMMITS
    /\ IsSeen(Head(items))
    /\ items' = Tail(items)
    /\ lastSkip' = Head(items)
    /\ UNCHANGED <<diskVars, pc, state, ckptVars, loopVars, res, commitVars,
                   csvBuf, token_index, getVars, patchVars, histVars>>

\* Lines 225-234: the commit detail is requested; the commit is dropped when
\* the request failed, or it has no parent, no file, or too many files.
FetchCommit ==
    /\ pc = "items"
    /\ items # <<>> /\ collected < MAX_COMMITS
    /\ ~IsSeen(Head(items))
    /\ items' = Tail(items)
    /\ lastSkip' = NoSha
    /\ \E d \in DetailOutcomes :
          IF d.ok /\ d.parents > 0 /\ d.n > 0 /\ ~(d.n > FILES_LIMIT)
          THEN /\ cur' = Head(items)
               /\ nfiles' = d.n
               /\ fidx' = 1
               /\ wrote' = FALSE
               /\ pc' = "files"
          ELSE UNCHANGED <<commitVars, pc>>
    /\ UNCHANGED <<diskVars, state, ckptVars, loopVars, res,
                   csvBuf, token_index, getVars, patchVars, histVars>>

\* The for loop over files ends (line 236); the commit's locals are dead.
FilesDone ==
    /\ pc = "files"
    /\ fidx > nfiles
    /\ cur' = NoSha
    /\ nfiles' = 0
    /\ fidx' = 0
    /\ wrote' = FALSE
    /\ pc' = "items"
    /\ UNCHANGED <<diskVars, state, ckptVars, loopVars, itemVars,
                   csvBuf, token_index, getVars, patchVars, histVars>>

\* Lines 237-245: the file is skipped: it is not .py, has no patch, a fetch
\* failed, the two texts are equal, or build_ir4_or2 gave no pair.
SkipFile ==
    /\ pc = "files"
    /\ fidx <= nfiles
    /\ fidx' = fidx + 1
    /\ UNCHANGED <<diskVars, pc, state, ckptVars, loopVars, itemVars,
                   cur, nfiles, wrote, csvBuf, token_index, getVars, patchVars, histVars>>

\* Lines 239-250: both texts are fetched, a pair is built and writer.writerow
\* puts the row in csvfile's buffer; the buffer reaches the file when the
\* write fills it.
WriteRow ==
    /\ pc = "files"
    /\ fidx <= nfiles
    /\ \E flush \in BOOLEAN :
          IF flush
          THEN /\ csvData' = PlusRows(csvData, AddRow(csvBuf, <<cur, fidx>>))
               /\ csvBuf' = EmptyRows
          ELSE /\ csvBuf' = AddRow(csvBuf, <<cur, fidx>>)
               /\ csvData' = csvData
    /\ pc' = "row"
    /\ UNCHANGED <<files, stateData, seenData, backupFiles, backupSeen,
                   state, ckptVars, loopVars, itemVars, commitVars,
                   token_index, getVars, patchVars, histVars>>

\* Lines 251-254 without the append to SEEN_FILE.
MarkSeenMemoryOnly ==
    /\ pc = "row"
    /\ seen_commits' = seen_commits \cup {cur}
    /\ collected' = collected + 1
    /\ wrote' = TRUE
    /\ fidx' = fidx + 1
    /\ pc' = "files"
    /\ UNCHANGED <<diskVars, state, ckptVars, pages_used, itemVars, cur, nfiles,
                   csvBuf, token_index, getVars, patchVars, histVars>>

\* Lines 251-254: the sha joins the seen set, in memory and in SEEN_FILE.
MarkSeen ==
    /\ pc = "row"
    /\ seen_commits' = seen_commits \cup {cur}
    /\ files' = files \cup {SEEN_FILE}
    /\ seenData' = seenData \cup {cur}
    /\ collected' = collected + 1
    /\ wrote' = TRUE
    /\ fidx' = fidx + 1
    /\ pc' = "files"
    /\ UNCHANGED <<stateData, csvData, backupFiles, backupSeen,
                   state, ckptVars, pages_used, itemVars, cur, nfiles,
                   csvBuf, token_index, getVars, patchVars, histVars>>

\* Line 259 without the increment.
same_page(p) == p

\* Line 259: page += 1.
next_page(p) == p + 1

\* Lines 259-261, up to save_state's open.
PageDone ==
    /\ pc = "page_done"
    /\ page' = next_page(page)
    /\ pages_used' = pages_used + 1
    /\ SaveOpen
    /\ pc' = "save_page"
    /\ inflight' = NoSearch
    /\ UNCHANGED <<seenData, csvData, backupFiles, backupSeen,
                   state, keyword_index, date_end, collected, seen_commits,
                   itemVars, commitVars, csvBuf, token_index, getVars, patchVars,
                   runs, lastExit, firstSearch, lastSearch, lastSaved>>

\* Line 261 completes (and the sleep of line 262).
PageSaved ==
    /\ pc = "save_page"
    /\ SaveDump
    /\ pc' = "inner"
    /\ UNCHANGED <<files, seenData, csvData, backupFiles, backupSeen,
                   state, ckptVars, loopVars, itemVars, commitVars,
                   csvBuf, token_index, getVars, patchVars,
                   runs, lastExit, firstSearch, lastSearch, inflight>>

\* Lines 265-268, up to save_state's open; pages_used and res are dead.
Advance ==
    /\ pc = "advance"
    /\ keyword_index < MaxWindows
    /\ date_end' = advance_date(date_end, DAYS_PER_RANGE)
    /\ page' = 1
    /\ keyword_index' = keyword_index + 1
    /\ pages_used' = 0
    /\ res' = "none"
    /\ SaveOpen
    /\ pc' = "save_adv"
    /\ inflight' = NoSearch
    /\ UNCHANGED <<seenData, csvData, backupFiles, backupSeen,
                   state, collected, seen_commits, items, lastSkip, commitVars,
                   csvBuf, token_index, getVars, patchVars,
                   runs, lastExit, firstSearch, lastSearch, lastSaved>>

\* Line 268 completes.
AdvanceSaved ==
    /\ pc = "save_adv"
    /\ SaveDump
    /\ pc' = "outer"
    /\ UNCHANGED <<files, seenData, csvData, backupFiles, backupSeen,
                   state, ckptVars, loopVars, itemVars, commitVars,
                   csvBuf, token_index, getVars, patchVars,
                   runs, lastExit, firstSearch, lastSearch, inflight>>

\* The process is killed: its memory and csvfile's buffer are lost, the
\* files stay as they are.
Kill ==
    /\ pc # "idle"
    /\ ProcessGone
    /\ lastExit' = "killed"
    /\ UNCHANGED <<diskVars, getVars, patchVars, runs>>

Next ==
    \/ StartCorrupt \/ StartLoad \/ StartDefault \/ StartSaved
    \/ OuterEnter \/ OuterExit \/ Search \/ InnerExit
    \/ ItemsDone \/ SkipSeen \/ FetchCommit
    \/ FilesDone \/ SkipFile \/ WriteRow \/ MarkSeen
    \/ PageDone \/ PageSaved \/ Advance \/ AdvanceSaved
    \/ Kill

Spec == Init /\ [][Next]_vars

---------------------------------------------------------------------------
\* reset_tracker_files.py

TRACKER_FILES == {"seen_commits.txt", "last_date.txt"}
BACKUP_DIR == "backups"

\* backup_and_reset (lines 21-41): each tracker file that exists is copied
\* into a new backup directory and removed.
backup_and_reset ==
    LET moved == TRACKER_FILES \cap files
    IN  /\ backupFiles' = moved
        /\ backupSeen' = (IF SEEN_FILE \in moved THEN seenData ELSE {})
        /\ files' = files \ moved
        /\ seenData' = (IF SEEN_FILE \in moved THEN {} ELSE seenData)
        /\ stateData' = (IF STATE_FILE \in moved THEN NoState ELSE stateData)
        /\ csvData' = (IF OUTPUT_FILE \in moved THEN EmptyRows ELSE csvData)

\* The script (lines 43-48), run while no collector runs: the reset happens
\* only on the answer "yes".
Reset ==
    /\ pc = "idle"
    /\ \E confirm \in {"yes", "no"} :
          IF confirm = "yes"
          THEN /\ backup_and_reset
               /\ lastExit' = "reset"
          ELSE UNCHANGED <<diskVars, lastExit>>
    /\ UNCHANGED <<procVars, token_index, getVars, patchVars, runs, searchHist>>

\* The collector without kills, and the reset script between its runs.
NextReset ==
    \/ StartLoad \/ StartDefault \/ StartSaved
    \/ OuterEnter \/ OuterExit \/ Search \/ InnerExit
    \/ ItemsDone \/ SkipSeen \/ FetchCommit
    \/ FilesDone \/ SkipFile \/ WriteRow \/ MarkSeen
    \/ PageDone \/ PageSaved \/ Advance \/ AdvanceSaved
    \/ Reset

SpecReset == Init /\ [][NextReset]_vars

---------------------------------------------------------------------------
\* The requests: github_get (lines 76-96) and switch_token (lines 69-73),
\* against any stream of responses with at most Max403 rate-limit responses
\* per call, and fetch_file (lines 164-167).

Tokens == 0..(NumTokens - 1)

\* Line 71 without the wrap.
switch_token_nowrap(i) == i + 1

\* Line 71.
switch_token(i) == (i + 1) % NumTokens

\* Line 88: the long sleep follows a switch from the last credential to the first.
FullWrap(prev, now) == now = 0 /\ prev = NumTokens - 1

\* Line 93 with >= for >.
GiveUpEarly(a) == a >= 3

\* Line 93.
GiveUp(a) == a > 3

\* get_headers (lines 62-66): the token of the current index.
get_headers == token_index

\* search_commits_query or get_commit_details calls github_get(url) (lines
\* 154-162), which issues its first request (lines 79-81).
GetCall ==
    /\ gpc = "idle"
    /\ \E e \in {"search", "commit"} : req' = Authed(e, get_headers)
    /\ gpc' = "loop"
    /\ attempts' = 0
    /\ gret' = "none"
    /\ nOther' = 0
    /\ n403' = 0
    /\ hist' = <<>>
    /\ UNCHANGED <<diskVars, procVars, patchVars, token_index, histVars, limited>>

\* Lines 82-83: status 200, the payload is returned.
Resp200 ==
    /\ gpc = "loop"
    /\ gret' = "json"
    /\ gpc' = "idle"
    /\ limited' = {}
    /\ hist' = <<>>
    /\ UNCHANGED <<diskVars, procVars, patchVars, token_index, histVars,
                   attempts, nOther, n403, req>>

\* Lines 84-90: status 403, the credential is switched, and the process
\* sleeps RATE_LIMIT_SLEEP when the switch wrapped; then the request is retried.
Resp403 ==
    /\ gpc = "loop"
    /\ n403 < Max403
    /\ LET prev == token_index
           now == switch_token(token_index)
           slept == FullWrap(prev, now)
           tried == limited \cup {prev}
       IN  /\ token_index' = now
           /\ req' = Authed(req.endpoint, now)
           /\ hist' = Append(hist, [idx |-> prev, slept |-> slept,
                                    all |-> (tried = Tokens)])
           /\ limited' = (IF slept THEN {} ELSE tried)
    /\ n403' = n403 + 1
    /\ UNCHANGED <<diskVars, procVars, patchVars, histVars, gpc, attempts, gret, nOther>>

\* Lines 91-96: another status; the call gives up when attempts exceeds 3,
\* else sleeps REQUEST_RETRY_SLEEP and retries.
RespOther ==
    /\ gpc = "loop"
    /\ attempts' = attempts + 1
    /\ nOther' = nOther + 1
    /\ hist' = <<>>
    /\ IF GiveUp(attempts + 1)
       THEN gret' = "None" /\ gpc' = "idle" /\ req' = req
       ELSE req' = Authed(req.endpoint, get_headers) /\ UNCHANGED <<gret, gpc>>
    /\ UNCHANGED <<diskVars, procVars, patchVars, token_index, histVars, n403, limited>>

Respond == Resp200 \/ Resp403 \/ RespOther

\* fetch_file (lines 164-167): requests.get(url), and the text or None.
FetchFile ==
    /\ gpc = "idle"
    /\ req' = Bare("raw")
    /\ UNCHANGED <<diskVars, procVars, patchVars, token_index, histVars,
                   gpc, attempts, gret, nOther, n403, limited, hist>>

NextGet == GetCall \/ Resp200 \/ Resp403 \/ RespOther \/ FetchFile

\* Every request is answered: requests.get blocks until the response.
SpecGet == Init /\ [][NextGet]_vars /\ WF_vars(Respond)

---------------------------------------------------------------------------
\* parse_patch_hunks (lines 100-122) and build_ir4_or2 (lines 125-150).
\* A str is the sequence of its characters, each a one-character string.

NL == "\n"
Digits == {"0", "1", "2", "3", "4", "5", "6", "7", "8", "9"}
Whitespace == {" ", NL}

\* s.startswith(p)
startswith(s, p) == Len(s) >= Len(p) /\ SubSeq(s, 1, Len(p)) = p

\* p occurs in s at position i
At(s, i, p) == i + Len(p) - 1 <= Len(s) /\ SubSeq(s, i, i + Len(p) - 1) = p

\* str.splitlines(): the lines of a text, without their line ends; a final
\* line end opens no further line.
RECURSIVE splitlines(_)
splitlines(t) ==
    IF t = <<>> THEN <<>>
    ELSE LET brk == {i \in 1..Len(t) : t[i] = NL}
         IN  IF brk = {} THEN <<t>>
             ELSE LET k == CHOOSE i \in brk : \A j \in brk : i <= j
                  IN  <<SubSeq(t, 1, k - 1)>> \o splitlines(SubSeq(t, k + 1, Len(t)))

\* sep.join(ls)
RECURSIVE join(_, _)
join(sep, ls) ==
    IF ls = <<>> THEN <<>>
    ELSE IF Len(ls) = 1 THEN ls[1]
    ELSE ls[1] \o sep \o join(sep, Tail(ls))

\* s.strip() is not empty
HasNonSpace(s) == \E i \in 1..Len(s) : s[i] \notin Whitespace

DigitVal(c) ==
    CASE c = "0" -> 0 [] c = "1" -> 1 [] c = "2" -> 2 [] c = "3" -> 3
      [] c = "4" -> 4 [] c = "5" -> 5 [] c = "6" -> 6 [] c = "7" -> 7
      [] c = "8" -> 8 [] c = "9" -> 9

\* int(ds) of a string of decimal digits
RECURSIVE int(_)
int(ds) ==
    IF ds = <<>> THEN 0
    ELSE int(SubSeq(ds, 1, Len(ds) - 1)) * 10 + DigitVal(ds[Len(ds)])

\* The length of the longest run of digits of s that starts at position i: \d+
RECURSIVE DigitRun(_, _)
DigitRun(s, i) ==
    IF i <= Len(s) /\ s[i] \in Digits THEN 1 + DigitRun(s, i + 1) ELSE 0

\* (?:,(\d+))? at position i: the group's digits, <<>> when it takes no part.
OptGroup(s, i) ==
    IF i <= Len(s) /\ s[i] = "," /\ DigitRun(s, i + 1) > 0
    THEN SubSeq(s, i + 1, i + DigitRun(s, i + 1))
    ELSE <<>>
OptWidth(g) == IF g = <<>> THEN 0 ELSE Len(g) + 1

NoMatch == [ok |-> FALSE, g1 |-> <<>>, g2 |-> <<>>, g3 |-> <<>>, g4 |-> <<>>]

\* header_re.match(s) (lines 103, 105): ^@@ -(\d+)(?:,(\d+))? \+(\d+)(?:,(\d+))? @@
header_re_match(s) ==
    IF ~startswith(s, <<"@", "@", " ", "-">>) THEN NoMatch
    ELSE LET n1 == DigitRun(s, 5)
             g1 == SubSeq(s, 5, 4 + n1)
             i2 == 5 + n1
             g2 == OptGroup(s, i2)
             i3 == i2 + OptWidth(g2)
             n3 == DigitRun(s, i3 + 2)
             g3 == SubSeq(s, i3 + 2, i3 + 1 + n3)
             i4 == i3 + 2 + n3
             g4 == OptGroup(s, i4)
             i5 == i4 + OptWidth(g4)
         IN  IF /\ n1 > 0
                /\ At(s, i3, <<" ", "+">>)
                /\ n3 > 0
                /\ At(s, i5, <<" ", "@", "@">>)
             THEN [ok |-> TRUE, g1 |-> g1, g2 |-> g2, g3 |-> g3, g4 |-> g4]
             ELSE NoMatch

\* Lines 108 and 110 with 0 for 1.
group_or_0(g) == IF g # <<>> THEN int(g) ELSE 0

\* Lines 108 and 110: int(m.group(k)) if m.group(k) else 1.
group_or_1(g) == IF g # <<>> THEN int(g) ELSE 1

\* Lines 113-115: the index of the first line from i on that starts with
\* "@@ ", or one past the last line.
RECURSIVE BodyEnd(_, _)
BodyEnd(lines, i) ==
    IF i <= Len(lines) /\ ~startswith(lines[i], <<"@", "@", " ">>)
    THEN BodyEnd(lines, i + 1)
    ELSE i

\* The while loop of lines 104-121 from index i on.
RECURSIVE ParseFrom(_, _)
ParseFrom(lines, i) ==
    IF i > Len(lines) THEN <<>>
    ELSE LET m == header_re_match(lines[i])
         IN  IF m.ok
             THEN LET j == BodyEnd(lines, i + 1)
                  IN  <<[o_start |-> int(m.g1), o_len |-> group_or_1(m.g2),
                         n_start |-> int(m.g3), n_len |-> group_or_1(m.g4),
                         lines |-> SubSeq(lines, i + 1, j - 1)]>>
                      \o ParseFrom(lines, j)
             ELSE ParseFrom(lines, i + 1)

parse_patch_hunks(p) == ParseFrom(splitlines(p), 1)

Min(S) == CHOOSE x \in S : \A y \in S : x <= y
Max(S) == CHOOSE x \in S : \A y \in S : x >= y

\* (None, None)
NonePair == [none |-> TRUE, ir4 |-> <<>>, or2 |-> <<>>]
FILL_ME == <<"<", "F", "I", "L", "L", "_", "M", "E", ">">>

\* Line 131 without the - 1.
o_end_exclusive(h) == h.o_start + h.o_len

\* Line 131: the last original line of a hunk.
o_end(h) == h.o_start + h.o_len - 1

\* Lines 132-133.
start_idx_of(hs) == Max({0, Min({hs[k].o_start : k \in 1..Len(hs)}) - 1})
end_idx_of(hs, n) == Min({n - 1, Max({o_end(hs[k]) : k \in 1..Len(hs)}) - 1})

\* Line 140: the filter of the comprehension.
IsAddedLine(ln) == startswith(ln, <<"+">>) /\ ~startswith(ln, <<"+", "+", "+">>)

\* [ln[1:] for ln in lines if ...]
RECURSIVE AddedIn(_)
AddedIn(lines) ==
    IF lines = <<>> THEN <<>>
    ELSE (IF IsAddedLine(Head(lines)) THEN <<Tail(Head(lines))>> ELSE <<>>)
         \o AddedIn(Tail(lines))

\* Lines 138-141: fixed_snippet_lines.
RECURSIVE fixed_snippet_lines(_)
fixed_snippet_lines(hs) ==
    IF hs = <<>> THEN <<>>
    ELSE AddedIn(Head(hs).lines) \o fixed_snippet_lines(Tail(hs))

\* Line 142 never true.
NoSnippetNever(fsl) == FALSE

\* Line 142: not fixed_snippet_lines.
NoSnippet(fsl) == fsl = <<>>

\* Line 145: the envelope's lines as comments.
Commented(snippet) ==
    [i \in 1..Len(snippet) |->
        IF HasNonSpace(snippet[i]) THEN <<"#", " ">> \o snippet[i] ELSE <<"#">>]

\* build_ir4_or2(buggy_code, fixed_code, patch); fixed_code is not read.
build_ir4_or2(buggy, p) ==
    LET hs == parse_patch_hunks(p)
    IN  IF hs = <<>> THEN NonePair
        ELSE
        LET buggy_lines_all == splitlines(buggy)
            n == Len(buggy_lines_all)
            start_idx == start_idx_of(hs)
            end_idx == end_idx_of(hs, n)
        IN  IF start_idx > end_idx THEN NonePair
            ELSE
            LET buggy_snippet == SubSeq(buggy_lines_all, start_idx + 1, end_idx + 1)
                fsl == fixed_snippet_lines(hs)
            IN  IF NoSnippet(fsl) THEN NonePair
                ELSE
                LET commented == join(<<NL>>, Commented(buggy_snippet))
                IN  [none |-> FALSE,
                     ir4 |-> join(<<NL>>,
                                  SubSeq(buggy_lines_all, 1, start_idx)
                                  \o <<commented, FILL_ME>>
                                  \o SubSeq(buggy_lines_all, end_idx + 2, n)),
                     or2 |-> join(<<NL>>, fsl)]

\* The inputs: patches of up to MaxPatchLines lines, each one of the lines
\* below, and three files.
\* @@ -10,3 +10,5 @@
H_10_3_10_5 ==
    <<"@", "@", " ", "-", "1", "0", ",", "3", " ", "+", "1", "0", ",", "5", " ", "@", "@">>
\* @@ -4 +4 @@
H_4_4 ==
    <<"@", "@", " ", "-", "4", " ", "+", "4", " ", "@", "@">>
\* @@ -2,2 +2 @@
H_2_2_2 ==
    <<"@", "@", " ", "-", "2", ",", "2", " ", "+", "2", " ", "@", "@">>
\* @@ -1,0 +1,2 @@
H_1_0_1_2 ==
    <<"@", "@", " ", "-", "1", ",", "0", " ", "+", "1", ",", "2", " ", "@", "@">>
\* @@ -0,0 +1 @@
H_0_0_1 ==
    <<"@", "@", " ", "-", "0", ",", "0", " ", "+", "1", " ", "@", "@">>
\* @@ -3,0 +4 @@
H_3_0_4 ==
    <<"@", "@", " ", "-", "3", ",", "0", " ", "+", "4", " ", "@", "@">>
L_at_x == <<"@", "@", " ", "x">>    \* '@@ x'
\* @@ -4, +4 @@
L_no_len ==
    <<"@", "@", " ", "-", "4", ",", " ", "+", "4", " ", "@", "@">>
L_add_B2 == <<"+", "B", "2">>    \* '+B2'
L_add_plusplus == <<"+", "+", "+", "x">>    \* '+++x'
L_del_b == <<"-", "b">>    \* '-b'
L_ctx_c == <<" ", "c">>    \* ' c'
L_add_empty == <<"+">>    \* '+'

HeaderLines == {H_10_3_10_5, H_4_4, H_2_2_2, H_1_0_1_2, H_0_0_1, H_3_0_4}
OtherLines ==
    {L_at_x, L_no_len, L_add_B2, L_add_plusplus, L_del_b, L_ctx_c, L_add_empty}
LineKinds == HeaderLines \cup OtherLines

Patches ==
    {join(<<NL>>, ls) :
        ls \in UNION {[1..n -> LineKinds] : n \in 0..MaxPatchLines}}

FILE_abcde == <<"a", "\n", "b", "\n", "c", "\n", "d", "\n", "e">>
FILE_blanks == <<"a", "\n", "\n", " ", "\n", "d">>    \* "a", "", " ", "d"
BuggyFiles == {<<>>, FILE_abcde, FILE_blanks}

InitPatch ==
    /\ InitCollector
    /\ ppc = "input"
    /\ patch \in Patches
    /\ buggy_code \in BuggyFiles
    /\ hunks = <<>>
    /\ pair = NonePair

\* parse_patch_hunks(patch), called on its own.
Parse ==
    /\ ppc = "input"
    /\ hunks' = parse_patch_hunks(patch)
    /\ ppc' = "parsed"
    /\ UNCHANGED <<diskVars, procVars, token_index, histVars, getVars,
                   patch, buggy_code, pair>>

\* Lines 243-254 of main for one file: the pair is built, and the row is
\* written and the commit marked seen unless ir4 or or2 is None or empty.
BuildFile ==
    /\ ppc = "input"
    /\ LET r == build_ir4_or2(buggy_code, patch)
       IN  /\ pair' = r
           /\ ppc' = (IF r.none \/ r.ir4 = <<>> \/ r.or2 = <<>>
                      THEN "skipped" ELSE "written")
    /\ UNCHANGED <<diskVars, procVars, token_index, histVars, getVars,
                   patch, buggy_code, hunks>>

NextPatch == Parse \/ BuildFile

SpecPatch == InitPatch /\ [][NextPatch]_vars

---------------------------------------------------------------------------
\* Properties of the collector (Spec).

Running == pc # "idle"

\* C1: whenever no collector process runs (after a kill at any point, or a
\* completed run), the dataset file holds no row twice and every commit of
\* the seen-set file has a row in the dataset file.
C1_KillRestartSafe ==
    ~Running =>
        /\ \A r \in Rows : csvData[r] <= 1
        /\ \A c \in seenData : \E r \in Rows : r[1] = c /\ csvData[r] >= 1

\* The two halves of C1, each on its own.
C1_NoDuplicateRow == ~Running => \A r \in Rows : csvData[r] <= 1
C1_SeenHasRow ==
    ~Running => \A c \in seenData : \E r \in Rows : r[1] = c /\ csvData[r] >= 1

NextPageOf(q) == SearchOf(q.keyword_index, q.date_end, q.page + 1)
NextWindowOf(q) ==
    SearchOf(q.keyword_index + 1, advance_date(q.date_end, DAYS_PER_RANGE), 1)

\* The first search of a process uses the checkpoint it loaded, and that is
\* the last search of the process before it, or that search's successor.
C2_ResumeTuple ==
    firstSearch # NoSearch =>
        /\ state.ok
        /\ firstSearch =
              SearchOf(state.keyword_index, state.date_end, state.page)
        /\ inflight # NoSearch =>
              firstSearch \in {inflight, NextPageOf(inflight), NextWindowOf(inflight)}

\* C2: after a kill at any point the restarted process gets to its first
\* search request, which uses the checkpoint of the file, the tuple in flight
\* at the kill or its successor.
C2_ResumeExact ==
    /\ lastExit # "crashed"
    /\ C2_ResumeTuple

FullyAttempted == pc = "files" /\ fidx > nfiles

\* C3 as stated: once the item loop has been through every file of a commit,
\* the commit is in the seen set, in memory and in the file.
C3_SeenAfterAttempt ==
    FullyAttempted => (cur \in seen_commits /\ cur \in seenData)

\* C3 amended: once the item loop has been through every file of a commit,
\* the commit is in the seen set (in memory and in the file) exactly when
\* one of its files produced a row.
C3_SeenIffRowWritten ==
    FullyAttempted =>
        /\ (cur \in seen_commits) <=> wrote
        /\ (SEEN_FILE \in files /\ cur \in seenData) <=> wrote

C3_Witness == FullyAttempted /\ ~wrote /\ nfiles = FILES_LIMIT /\ cur \notin seenData

ConsidersSeen ==
    /\ pc = "items" /\ items # <<>> /\ collected < MAX_COMMITS
    /\ Head(items) \in seen_commits

\* C4: an item whose commit is in the seen set when it is considered is only
\* passed over (no request, no row, nothing else changes); a commit whose
\* detail was fetched was not in the seen set; and the seen set of a running
\* process never loses a member.
C4_SeenSuppressed ==
    /\ []((pc \in {"files", "row"} /\ ~wrote) => cur \notin seen_commits)
    /\ [][(ConsidersSeen /\ pc' # "idle") =>
            /\ pc' = "items" /\ items' = Tail(items)
            /\ UNCHANGED <<diskVars, commitVars, csvBuf, loopVars, ckptVars,
                           token_index>>]_vars
    /\ [][(Running /\ pc' # "idle") => seen_commits \subseteq seen_commits']_vars

\* The same page is fetched again by a second process and a seen commit of it
\* has just been passed over.
C4_Witness ==
    /\ runs = 2 /\ pc = "items"
    /\ lastSearch = inflight
    /\ lastSkip \in seen_commits
    /\ csvBuf = EmptyRows

\* C5: the window is advanced only when its pages are exhausted: the page
\* cap was reached or the last search returned nothing.
C5_AdvanceOnlyWhenExhausted ==
    pc = "advance" => (pages_used >= MAX_PAGES_PER_QUERY \/ res = "none")

\* C6: every search request carries a page number in 1..MAX_PAGES_PER_QUERY.
C6_PageCap ==
    lastSearch # NoSearch => lastSearch.page \in 1..MAX_PAGES_PER_QUERY

\* C18: the number of rows a process has written never exceeds MAX_COMMITS.
C18_TargetBound == collected <= MAX_COMMITS

\* The window searched for a date_end (lines 204-205): end_date and
\* start_date, as ordinals.
WindowEnd(de) == Strptime(de)
WindowStart(de) == Strptime(de) - (DAYS_PER_RANGE - 1)

\* C12: the window advance moves date_end back by exactly DAYS_PER_RANGE
\* days, adds one to keyword_index and sets page to 1; the new window ends
\* the day before the old one starts; and whenever a search may be issued
\* after an advance the checkpoint file holds the tuple it will use.
C12_WindowAdvance ==
    /\ [][(pc = "advance" /\ pc' = "save_adv") =>
            /\ Strptime(date_end') = Strptime(date_end) - DAYS_PER_RANGE
            /\ keyword_index' = keyword_index + 1
            /\ page' = 1
            /\ WindowEnd(date_end') = WindowStart(date_end) - 1
            /\ WindowEnd(date_end') - WindowStart(date_end') = DAYS_PER_RANGE - 1]_vars
    /\ []((pc = "inner" /\ keyword_index > state.keyword_index) =>
            /\ STATE_FILE \in files
            /\ stateData = StateOf(keyword_index, date_end, page))

\* A process has advanced from the window ending 2024-03-03 and saved.
C12_Witness ==
    /\ pc = "inner"
    /\ state.keyword_index = 0 /\ state.date_end = <<2024, 3, 3>>
    /\ keyword_index = 1 /\ date_end = <<2024, 2, 25>> /\ page = 1
    /\ stateData = StateOf(1, <<2024, 2, 25>>, 1)

\* Search b comes later in the crawl order than search a: an earlier window,
\* or the same window and a higher page.
Later(a, b) ==
    \/ Strptime(b.date_end) < Strptime(a.date_end)
    \/ /\ b.date_end = a.date_end /\ b.keyword_index = a.keyword_index
       /\ b.page > a.page

\* C13: whenever a process is about to issue a search request, its tuple
\* comes strictly later in the crawl order than the one of the process's
\* previous search, hence differs from every search the process has issued.
C13_NoRepeatSearch ==
    (/\ pc = "inner"
     /\ pages_used < MAX_PAGES_PER_QUERY /\ collected < MAX_COMMITS
     /\ lastSearch # NoSearch)
    => Later(lastSearch, SearchOf(keyword_index, date_end, page))

\* A process has searched in one window and then in the next one.
C13_Witness ==
    /\ pc = "items"
    /\ firstSearch = SearchOf(0, <<2024, 3, 3>>, 1)
    /\ lastSearch = SearchOf(1, <<2024, 2, 25>>, 1)
    /\ lastSaved = StateOf(1, <<2024, 2, 25>>, 1)

\* C14: a checkpoint in the file has page >= 1; from one checkpoint a
\* process writes to the next, date_end does not increase, keyword_index
\* does not decrease, and within one window page grows by exactly 1.
C14_CheckpointMonotone ==
    /\ []((STATE_FILE \in files /\ stateData.ok) => stateData.page >= 1)
    /\ [][(pc \in {"save_page", "save_adv"} /\ lastSaved.ok /\ lastSaved'.ok) =>
            /\ stateData' = lastSaved'
            /\ Strptime(lastSaved'.date_end) <= Strptime(lastSaved.date_end)
            /\ lastSaved'.keyword_index >= lastSaved.keyword_index
            /\ (lastSaved'.date_end = lastSaved.date_end
                  /\ lastSaved'.keyword_index = lastSaved.keyword_index)
               => lastSaved'.page = lastSaved.page + 1]_vars

\* A resumed process has written the checkpoints of pages 3 and 4 of a window.
C14_Witness ==
    /\ runs = 2 /\ pc = "inner"
    /\ state.page = 2
    /\ lastSaved = StateOf(0, <<2024, 3, 3>>, 4)

---------------------------------------------------------------------------
\* Properties of the reset script (SpecReset).

\* C10: after a confirmed reset neither the checkpoint file nor the seen-set
\* file exists, and the next collector run starts from the default
\* checkpoint with an empty seen set.
C10_ResetClears ==
    /\ (lastExit = "reset" /\ ~Running) =>
          (STATE_FILE \notin files /\ SEEN_FILE \notin files)
    /\ (lastExit = "reset" /\ pc = "outer") =>
          (state.keyword_index = 0 /\ state.page = 1 /\ state.date_end \in Todays)

---------------------------------------------------------------------------
\* Properties of github_get (SpecGet).

\* C7: a 403 response is followed by the long sleep exactly when, with it,
\* every credential has been answered 403 since the last 200.
C7_CooldownExact ==
    \A j \in 1..Len(hist) : hist[j].slept <=> hist[j].all

\* The credential index after the j-th 403 response of the run in hist.
IndexAfter(j) == IF j < Len(hist) THEN hist[j + 1].idx ELSE token_index

\* C8: over any NumTokens 403 responses in a row the process slept exactly
\* once and the credential index is back where it was; the index is always
\* one of the pool.
C8_FullCycle ==
    /\ token_index \in Tokens
    /\ \A j \in 1..Len(hist) :
          j + NumTokens - 1 <= Len(hist) =>
             /\ Cardinality({k \in j..(j + NumTokens - 1) : hist[k].slept}) = 1
             /\ IndexAfter(j + NumTokens - 1) = hist[j].idx

C8_Witness ==
    /\ Len(hist) = NumTokens
    /\ hist[1].idx = 1
    /\ token_index = 1

\* C9: github_get returns None at the 4th other response and not before,
\* whatever 403 responses came in between; a 403 response never ends the
\* call nor counts; and every call with finitely many 403 responses returns.
C9_RetryPolicy ==
    /\ [](/\ gret = "None" => nOther = 4
          /\ gpc = "loop" => nOther < 4
          /\ gret = "json" => nOther < 4)
    /\ [][n403' = n403 + 1 => (gpc' = "loop" /\ nOther' = nOther /\ gret' = gret)]_vars
    /\ (gpc = "loop") ~> (gpc = "idle")

C9_Witness == gret = "None" /\ n403 = Max403 /\ nOther = 4

\* C11: every request issued carries the Authorization header of the
\* credential that is current when it is issued.
C11_Authenticated ==
    req.endpoint # "none" => (req.authed /\ req.token = token_index)

\* The requests of github_get, each on its own, do carry it.
C11_GithubGetAuthenticated ==
    req.endpoint \in {"search", "commit"} =>
        (req.authed /\ req.token = token_index)

---------------------------------------------------------------------------
\* Properties of parse_patch_hunks and build_ir4_or2 (SpecPatch).

\* The four numbers each header line of the inputs states, read off the line.
HeaderNumbers(l) ==
    CASE l = H_10_3_10_5 -> <<10, 3, 10, 5>>
      [] l = H_4_4 -> <<4, 1, 4, 1>>
      [] l = H_2_2_2 -> <<2, 2, 2, 1>>
      [] l = H_1_0_1_2 -> <<1, 0, 1, 2>>
      [] l = H_0_0_1 -> <<0, 0, 1, 1>>
      [] l = H_3_0_4 -> <<3, 0, 4, 1>>

PatchLines == splitlines(patch)
HeaderIdx == {i \in 1..Len(PatchLines) : PatchLines[i] \in HeaderLines}

\* The index of the k-th header line, and of the line that ends its body.
KthHeader(k) ==
    CHOOSE i \in HeaderIdx : Cardinality({j \in HeaderIdx : j <= i}) = k
BodyLimit(k) ==
    IF k < Cardinality(HeaderIdx) THEN KthHeader(k + 1) ELSE Len(PatchLines) + 1

\* C17: parse_patch_hunks returns one hunk per header line, in the order of
\* the lines, with the four numbers the header states, an omitted length
\* being 1; and so no hunk for a text without a header line.
C17_HeaderParsing ==
    ppc = "parsed" =>
        /\ Len(hunks) = Cardinality(HeaderIdx)
        /\ \A k \in 1..Len(hunks) :
              <<hunks[k].o_start, hunks[k].o_len, hunks[k].n_start, hunks[k].n_len>>
                 = HeaderNumbers(PatchLines[KthHeader(k)])

\* "@@ -10,3 +10,5 @@" and "@@ -4 +4 @@" parsed, in that order.
C17_Witness ==
    /\ ppc = "parsed"
    /\ PatchLines = <<H_10_3_10_5, L_add_B2, H_4_4>>
    /\ Len(hunks) = 2
    /\ hunks[1].o_start = 10 /\ hunks[1].o_len = 3
    /\ hunks[1].n_start = 10 /\ hunks[1].n_len = 5
    /\ hunks[2].o_start = 4 /\ hunks[2].o_len = 1
    /\ hunks[2].n_start = 4 /\ hunks[2].n_len = 1

\* C19: the body of the k-th hunk is exactly the lines after the k-th header
\* line up to the next header line or the end of the text, in their order.
C19_BodyAssignment ==
    ppc = "parsed" =>
        /\ Len(hunks) = Cardinality(HeaderIdx)
        /\ \A k \in 1..Len(hunks) :
              hunks[k].lines =
                 SubSeq(PatchLines, KthHeader(k) + 1, BodyLimit(k) - 1)

\* The same for the texts in which every line that starts with "@@ " is a
\* header line.
C19_BodyUntilMarker ==
    (\A i \in 1..Len(PatchLines) : PatchLines[i] \notin {L_at_x, L_no_len})
    => C19_BodyAssignment

Built == ppc \in {"written", "skipped"}
ParsedHunks == parse_patch_hunks(patch)
BuggyLines == splitlines(buggy_code)
EnvStart == start_idx_of(ParsedHunks)
EnvEnd == end_idx_of(ParsedHunks, Len(BuggyLines))

\* The lines of a body that start with "+", without the "+".
RECURSIVE PlusIn(_)
PlusIn(lines) ==
    IF lines = <<>> THEN <<>>
    ELSE (IF Head(lines)[1] = "+" THEN <<Tail(Head(lines))>> ELSE <<>>)
         \o PlusIn(Tail(lines))

\* The added lines of all hunks, in hunk order then in-hunk order.
RECURSIVE PlusLines(_)
PlusLines(hs) ==
    IF hs = <<>> THEN <<>> ELSE PlusIn(Head(hs).lines) \o PlusLines(Tail(hs))

IsBlank(l) == \A i \in 1..Len(l) : l[i] = " "
AsComment(l) == IF IsBlank(l) THEN <<"#">> ELSE <<"#", " ">> \o l

\* The masking transform, the added lines being the sequence added.
Masked(added) ==
    (Built /\ ParsedHunks # <<>> /\ EnvStart <= EnvEnd /\ added # <<>>) =>
        /\ ~pair.none
        /\ pair.ir4 =
              join(<<NL>>,
                   SubSeq(BuggyLines, 1, EnvStart)
                   \o [i \in 1..(EnvEnd - EnvStart + 1) |->
                          AsComment(BuggyLines[EnvStart + i])]
                   \o <<FILL_ME>>
                   \o SubSeq(BuggyLines, EnvEnd + 2, Len(BuggyLines)))
        /\ pair.or2 = join(<<NL>>, added)

\* The example: lines a..e, one hunk over lines 2-3 that adds B2.
MaskedExample ==
    (Built /\ PatchLines = <<H_2_2_2, L_add_B2>> /\ buggy_code = FILE_abcde) =>
        /\ pair.or2 = <<"B", "2">>
        /\ pair.ir4 = <<"a", "\n", "#", " ", "b", "\n", "#", " ", "c", "\n", "<", "F", "I", "L", "L", "_", "M", "E", ">", "\n", "d", "\n", "e">>

\* C15: with a non-empty envelope and at least one added line, the input
\* representation is the lines before the envelope, the envelope's lines as
\* comments, one <FILL_ME> line and the lines after the envelope, and the
\* output representation is all added lines joined by newlines.
C15_Masking ==
    /\ Masked(PlusLines(ParsedHunks))
    /\ MaskedExample

\* The same, the added lines being those that do not start with "+++".
C15_MaskingMarkersExcluded ==
    /\ Masked(fixed_snippet_lines(ParsedHunks))
    /\ MaskedExample

\* C16: without a hunk, with an empty envelope or without an added line,
\* build_ir4_or2 returns (None, None) and main skips the file; and a row is
\* written only for a patch with a hunk that has an added line.
C16_NotBuildable ==
    Built =>
        /\ (\/ ParsedHunks = <<>>
            \/ EnvStart > EnvEnd
            \/ PlusLines(ParsedHunks) = <<>>)
           => (pair = NonePair /\ ppc = "skipped")
        /\ ppc = "written" =>
              (ParsedHunks # <<>> /\ PlusLines(ParsedHunks) # <<>>)

\* A pure deletion inside the file: a hunk, an envelope, no added line.
C16_Witness ==
    /\ ppc = "skipped"
    /\ PatchLines = <<H_2_2_2, L_del_b, L_ctx_c>>
    /\ buggy_code = FILE_abcde
    /\ EnvStart <= EnvEnd
    /\ pair = NonePair

\* C20: a patch of one hunk of original length 0 gives (None, None), for
\* every file and whatever the hunk adds.
C20_PureInsertion ==
    (Built /\ Len(ParsedHunks) = 1 /\ ParsedHunks[1].o_len = 0) =>
        (pair = NonePair /\ ppc = "skipped")

\* "@@ -3,0 +4 @@" adding B2 to the file of lines a..e.
C20_Witness ==
    /\ ppc = "skipped"
    /\ PatchLines = <<H_3_0_4, L_add_B2>>
    /\ buggy_code = FILE_abcde
    /\ ParsedHunks[1].o_start = 3 /\ ParsedHunks[1].o_len = 0
    /\ PlusLines(ParsedHunks) = <<<<"B", "2">>>>
    /\ pair = NonePair

=============================================================================
